---- MODULE Spec2Model ----
(***************************************************************************)
(* The cyclestats processor of TylerHorn/cycle-stats: a telegraf processor *)
(* that buffers metrics under a key made of the measurement name and the   *)
(* timestamp truncated to one second, and flushes the whole cache as one   *)
(* aggregate per key when the buffer of the last metric's key is as long   *)
(* as the required-field list of the last metric's measurement.            *)
(*                                                                         *)
(* The module also models the two other plugins of the repository, each    *)
(* under its own specification: the min aggregator (SpecMin) and the       *)
(* metadata processor (SpecMeta).                                          *)
(*                                                                         *)
(* Times are in milliseconds since the epoch together with a location, as  *)
(* Go's time.Time is an instant with a location.  Strings are TLA+ strings *)
(* and are concatenated with \o.                                           *)
(***************************************************************************)
EXTENDS Integers, Sequences, FiniteSets, TLC

VARIABLES
    GroupBy,    \* CycleStats.GroupBy: the configured grouping patterns
    filters,    \* CycleStats.filters: "nil" or "compiled"
    cache,      \* CycleStats.cache: group key -> buffer (sequence) of metrics
    phase,      \* lifecycle of the plugin: "new" (after New), "initialized"
    initErr,    \* what Init returned: "none" (not called yet) or "nil"
    in,         \* the batch the host is passing / has passed to Apply
    called,     \* TRUE when Apply has run on `in` and its results are below
    out,        \* the batch returned by the last Apply call
    preCache,   \* the cache on entry to the last Apply call
    steps,      \* the cache after each metric of the last Apply call
    dropped,    \* number of Drop() calls on each metric of the last batch
    logged,     \* number of Log.Errorf calls during the last Apply call
    gkeys,      \* the key computed at line 199 for each metric of the batch
    pushed,     \* TRUE when the last Apply call ran push()
    since,      \* keys under which a metric was appended since the last Reset
    \* the min aggregator (plugins/aggregators/cyclestats)
    nameCache,  \* CycleStats.nameCache: metric id -> name
    tagCache,   \* CycleStats.tagCache: metric id -> tags
    fieldCache, \* CycleStats.fieldCache: metric id -> (field key -> float64)
    acc,        \* the records the last Push gave to the accumulator
    accFresh,   \* TRUE from a Push until the next Add or Reset
    added,      \* the metrics passed to Add since the last Reset
    \* the metadata processor (MetadataProcessor)
    PortalTags, \* MetadataProcessor.PortalTags: the configured tags
    metaCache,  \* MetadataProcessor.metaCache: tag -> int
    meta_resp,  \* the package variable meta_resp
    metaPhase,  \* "new", "initialized", or "failed" when Init returned an error
    metaIn,     \* the batch for Apply: metrics, each with the answer the
                \* server gives if a request is made for it
    metaCalled, \* TRUE when Apply has run on metaIn
    metaOut,    \* the batch returned by the last Apply call
    mlog,       \* what the last Apply call did for each metric
    fetched     \* the record of the last successful request since the
                \* last state_change metric, or NoRecord

\* The variables of the cyclestats processor.
procVars == <<GroupBy, filters, cache, phase, initErr, in, called, out,
              preCache, steps, dropped, logged, gkeys, pushed, since>>

\* The variables of the min aggregator.
minVars == <<nameCache, tagCache, fieldCache, acc, accFresh, added>>

\* The variables of the metadata processor.
metaVars == <<PortalTags, metaCache, meta_resp, metaPhase, metaIn,
              metaCalled, metaOut, mlog, fetched>>

vars == <<procVars, minVars, metaVars>>

---------------------------------------------------------------------------
(* Bounds of the model.                                                    *)

\* Longest batch the host passes to one Apply call.
MaxBatch == 2

\* Largest number of metrics held in the cache at the end of the loop of
\* Apply (before the flush decision).
MaxCached == 5

---------------------------------------------------------------------------
(* The required-field table built by New().                                *)

Fields(name) ==
    CASE name = "steam_params" ->
           <<"steam_type", "cook_temp", "control_temp", "hot_drain_temp",
             "pv_unsafe", "pv_too_low", "drain_open_duration",
             "drain_to_sec1", "drain_to_sec2", "wait_pressure">>
      [] name = "steam_stats" ->
           <<"error", "flows", "pd_timeouts", "stag_recoveries",
             "stop_cook_count">>
      [] name = "vessel_status" ->
           <<"lid_position", "shroud_inside_up", "shroud_inside_down",
             "shroud_outside_up", "shroud_outside_down", "shrouds",
             "vessel_temperature", "heater_temperature",
             "runaway_temperature", "pv_sensor_type", "vessel_pressure",
             "seal_pressure", "accumulator_pressure", "top_cover",
             "top_lid_open", "top_lid_closed", "bottom_lid_open",
             "bottom_lid_closed">>
      [] name = "system_status" ->
           <<"cover_interlock", "battery_fault", "line_current",
             "deodorizer_tank", "oil_tank", "flow_count", "bag_door",
             "top_cover", "reservoir", "fans">>
      [] name = "sys_status_mngr" ->
           <<"heater", "vacuum", "water", "compressor">>
      [] name = "grinder" ->
           <<"grinder_state", "jack_status", "switches_bottom",
             "switches_top", "reversals">>
      [] name = "vessel_lid_failure" ->
           <<"top_lid_open_failed", "top_lid_close_failed",
             "bottom_lid_open_failed", "bottom_lid_close_failed",
             "inside_shroud_open_failed", "inside_shroud_close_failed",
             "accumulator_not_pressurized", "seals_vacuum_failed",
             "jack_up_failed", "close_seals_failed", "vent_seals_failed",
             "compressor_throttled", "pv_mismatch", "error">>
      [] OTHER -> <<>>      \* a Go map read of an absent key: the nil slice

\* The measurement names that have an entry in the table.
TableNames ==
    {"steam_params", "steam_stats", "vessel_status", "system_status",
     "sys_status_mngr", "grinder", "vessel_lid_failure"}

---------------------------------------------------------------------------
(* Grouping patterns and their compilation (filter.Compile).               *)

DefaultGroupBy == <<"*">>

\* A glob that does not compile.
MalformedPatterns == {"["}

GroupByConfigs == {DefaultGroupBy, <<"[">>, <<>>}

\* filter.Compile(patterns) returns an error iff some pattern is malformed.
CompileFails(patterns) ==
    \E i \in 1..Len(patterns) : patterns[i] \in MalformedPatterns

---------------------------------------------------------------------------
(* Time: Truncate and String of time.Time.                                 *)

Millisecond == 1

\* Offset of a location from UTC, in seconds.
ZoneOffset(loc) == IF loc = "CET" THEN 3600 ELSE 0

ZoneOffsetString(loc) == IF loc = "CET" THEN "+0100" ELSE "+0000"

\* Time.Truncate(d): round the instant down to a multiple of d; the
\* location is kept.
Truncate(tm, d) == [tm EXCEPT !.ms = tm.ms - (tm.ms % d)]

\* Time.String(): wall-clock seconds, the fraction when it is not zero,
\* the zone offset and the zone abbreviation.
TimeString(tm) ==
    ToString((tm.ms \div 1000) + ZoneOffset(tm.loc))
      \o (IF tm.ms % 1000 = 0 THEN "" ELSE "." \o ToString(tm.ms % 1000))
      \o " " \o ZoneOffsetString(tm.loc) \o " " \o tm.loc

---------------------------------------------------------------------------
(* Metrics (telegraf.Metric).                                              *)

\* A metric object: name, tags, ordered field list, time.  obj tells the
\* objects created by the host ("input") from those created by Copy().
NewMetric(name, tags, fields, tm) ==
    [name |-> name, tags |-> tags, fields |-> fields, tm |-> tm,
     obj |-> "input"]

Field(k, v) == [Key |-> k, Value |-> v]

\* Metric.HasField(key)
HasField(m, key) == \E i \in 1..Len(m.fields) : m.fields[i].Key = key

\* AddField that keeps the value of an existing key.
AddFieldKeepFirst(m, key, value) ==
    IF HasField(m, key)
    THEN m
    ELSE [m EXCEPT !.fields = Append(m.fields, Field(key, value))]

\* Metric.AddField(key, value): replace the value of an existing key,
\* append the field otherwise.
AddField(m, key, value) ==
    IF HasField(m, key)
    THEN [m EXCEPT !.fields =
            [i \in 1..Len(m.fields) |->
               IF m.fields[i].Key = key THEN Field(key, value)
                                        ELSE m.fields[i]]]
    ELSE [m EXCEPT !.fields = Append(m.fields, Field(key, value))]

\* Copy that hands back the object itself.
CopyAlias(m) == m

\* Metric.Copy(): a new object with the same name, tags, fields and time.
Copy(m) == [m EXCEPT !.obj = "copy"]

\* The metrics the host delivers.
InputMetrics ==
    { NewMetric("sys_status_mngr", [host |-> "a"],
                <<Field("heater", 1)>>, [ms |-> 1000, loc |-> "UTC"]),
      NewMetric("sys_status_mngr", [host |-> "b"],
                <<Field("heater", 2), Field("vacuum", 1)>>,
                [ms |-> 1500, loc |-> "UTC"]),
      NewMetric("sys_status_mngr", [host |-> "a"],
                <<Field("water", 1)>>, [ms |-> 2000, loc |-> "UTC"]),
      NewMetric("sys_status_mngr", [host |-> "a"],
                <<Field("heater", 1)>>, [ms |-> 1000, loc |-> "CET"]),
      NewMetric("sys_status_mngr", [host |-> "a"],
                <<Field("uptime", 1)>>, [ms |-> 1000, loc |-> "UTC"]),
      NewMetric("grinder", [host |-> "a"],
                <<Field("grinder_state", 1)>>, [ms |-> 1000, loc |-> "UTC"]),
      NewMetric("state_change", [host |-> "a"],
                <<Field("state", 1)>>, [ms |-> 1000, loc |-> "UTC"]),
      NewMetric("cycle_info", [host |-> "a"],
                <<Field("heater", 1)>>, [ms |-> 1000, loc |-> "UTC"]) }

---------------------------------------------------------------------------
(* The cache (map[string][]telegraf.Metric).                               *)

\* Reset(): a new, empty map.
Reset == [k \in {} |-> <<>>]

\* t.cache[key] read: the buffer, or the nil slice when the key is absent.
\* Reading does not create the key.
CacheGet(c, key) == IF key \in DOMAIN c THEN c[key] ELSE <<>>

\* t.cache[key] = buf
CachePut(c, key, buf) ==
    [k \in DOMAIN c \cup {key} |-> IF k = key THEN buf ELSE c[k]]

RECURSIVE SumLen(_, _)
SumLen(c, keys) ==
    IF keys = {} THEN 0
    ELSE LET k == CHOOSE x \in keys : TRUE
         IN Len(c[k]) + SumLen(c, keys \ {k})

\* Number of metrics held in the cache.
Cached(c) == SumLen(c, DOMAIN c)

---------------------------------------------------------------------------
(* generateGroupByKey and groupBy.                                         *)

\* A key made of the name and the full timestamp.
GroupKeyStringNoTruncate(name, tm) == name \o "&" \o TimeString(tm)

\* The key string of line 163.
GroupKeyString(name, tm) ==
    name \o "&" \o TimeString(Truncate(tm, 1000 * Millisecond))

\* generateGroupByKey(m) with t.filters = f: the key, the error, and the
\* value of t.filters afterwards.
generateGroupByKey(f, m) ==
    IF f = "nil" /\ Len(GroupBy) > 0
    THEN IF CompileFails(GroupBy)
         THEN [key |-> "", err |-> TRUE, filters |-> "nil"]
         ELSE [key |-> GroupKeyString(m.name, m.tm), err |-> FALSE,
               filters |-> "compiled"]
    ELSE [key |-> GroupKeyString(m.name, m.tm), err |-> FALSE,
          filters |-> f]

\* A groupBy that starts the buffer of the key anew with each metric.
groupByReplace(st, m) ==
    LET g == generateGroupByKey(st.filters, m)
    IN IF g.err
       THEN [st EXCEPT !.filters = g.filters, !.logged = @ + 1]
       ELSE [st EXCEPT !.filters = g.filters,
                       !.cache = CachePut(st.cache, g.key, <<m>>),
                       !.since = @ \cup {g.key}]

\* A groupBy that logs the error of the key computation and goes on to
\* buffer the metric under the key it got.
groupByIgnoreErr(st, m) ==
    LET g  == generateGroupByKey(st.filters, m)
        c1 == IF g.key \in DOMAIN st.cache
              THEN st.cache
              ELSE CachePut(st.cache, g.key, <<>>)
    IN [st EXCEPT !.filters = g.filters,
                  !.logged = IF g.err THEN @ + 1 ELSE @,
                  !.cache = CachePut(c1, g.key, Append(c1[g.key], m)),
                  !.since = @ \cup {g.key}]

\* groupBy(m) on the loop state st (fields cache, filters, logged, since).
groupBy(st, m) ==
    LET g == generateGroupByKey(st.filters, m)
    IN IF g.err
       THEN [st EXCEPT !.filters = g.filters, !.logged = @ + 1]
       ELSE LET c1 == IF g.key \in DOMAIN st.cache
                      THEN st.cache
                      ELSE CachePut(st.cache, g.key, <<>>)
            IN [st EXCEPT !.filters = g.filters,
                          !.cache = CachePut(c1, g.key, Append(c1[g.key], m)),
                          !.since = @ \cup {g.key}]

---------------------------------------------------------------------------
(* Aggregate and push.                                                     *)

\* The nil telegraf.Metric.
NilMetric == [obj |-> "nil"]

\* The inner loop of Aggregate: AddField of fields[i..] onto metric.
RECURSIVE AddFields(_, _, _)
AddFields(metric, fields, i) ==
    IF i > Len(fields) THEN metric
    ELSE AddFields(AddField(metric, fields[i].Key, fields[i].Value),
                   fields, i + 1)

\* An iteration of Aggregate that also takes over the tags of m.
AggregateStepWithTags(metric, m) ==
    IF metric = NilMetric THEN Copy(m)
    ELSE [AddFields(metric, m.fields, 1) EXCEPT !.tags = m.tags]

\* One iteration of the loop of Aggregate.
AggregateStep(metric, m) ==
    IF metric = NilMetric THEN Copy(m)
    ELSE AddFields(metric, m.fields, 1)

RECURSIVE AggregateLoop(_, _, _)
AggregateLoop(metric, ms, i) ==
    IF i > Len(ms) THEN metric
    ELSE AggregateLoop(AggregateStep(metric, ms[i]), ms, i + 1)

\* Aggregate(ms)
Aggregate(ms) == AggregateLoop(NilMetric, ms, 1)

\* The orders in which a Go range over a map with key set S may run.
MapOrders(S) ==
    { o \in [1..Cardinality(S) -> S] :
        \A i, j \in 1..Cardinality(S) : o[i] = o[j] => i = j }

\* A push that flushes one key only and keeps the others buffered.
pushOneKey(c, order) ==
    IF Len(order) = 0 THEN [aggs |-> <<>>, cache |-> c]
    ELSE [aggs  |-> <<Aggregate(c[order[1]])>>,
          cache |-> [k \in DOMAIN c \ {order[1]} |-> c[k]]]

\* push() when the range over t.cache runs in the given order: the
\* returned batch and the cache afterwards.
push(c, order) ==
    [aggs  |-> [i \in 1..Len(order) |-> Aggregate(c[order[i]])],
     cache |-> Reset]

---------------------------------------------------------------------------
(* Apply.                                                                  *)

\* The hasField flag of lines 202-208: m carries a field of the list of
\* its measurement.
hasField(m) ==
    \E i \in 1..Len(Fields(m.name)) : HasField(m, Fields(m.name)[i])

\* An iteration that creates the buffer of the key before it looks at the
\* fields of the metric.
ApplyStepInitFirst(st, m) ==
    LET g  == generateGroupByKey(st.filters, m)
        c1 == IF g.err \/ g.key \in DOMAIN st.cache
              THEN st.cache
              ELSE CachePut(st.cache, g.key, <<>>)
        s1 == [st EXCEPT !.measurment = m.name,
                         !.dropped = Append(@, 1),
                         !.filters = g.filters,
                         !.groupkey = g.key,
                         !.gkeys = Append(@, g.key),
                         !.cache = c1]
        s2 == IF ~hasField(m) THEN s1 ELSE groupBy(s1, m)
    IN [s2 EXCEPT !.steps = Append(@, s2.cache)]

\* An iteration that remembers the key and the name of the metric only
\* when the metric is buffered.
ApplyStepKeyAfterFilter(st, m) ==
    LET g  == generateGroupByKey(st.filters, m)
        s1 == [st EXCEPT !.dropped = Append(@, 1),
                         !.filters = g.filters,
                         !.gkeys = Append(@, g.key)]
        s2 == IF ~hasField(m) THEN s1
              ELSE groupBy([s1 EXCEPT !.measurment = m.name,
                                      !.groupkey = g.key], m)
    IN [s2 EXCEPT !.steps = Append(@, s2.cache)]

\* An iteration that buffers the metric whatever its fields.
ApplyStepNoFilter(st, m) ==
    LET g  == generateGroupByKey(st.filters, m)
        s1 == [st EXCEPT !.measurment = m.name,
                         !.dropped = Append(@, 1),
                         !.filters = g.filters,
                         !.groupkey = g.key,
                         !.gkeys = Append(@, g.key)]
        s2 == groupBy(s1, m)
    IN [s2 EXCEPT !.steps = Append(@, s2.cache)]

\* One iteration of the loop of Apply (lines 192-215) on the loop state.
ApplyStep(st, m) ==
    LET g  == generateGroupByKey(st.filters, m)
        s1 == [st EXCEPT !.measurment = m.name,
                         !.dropped = Append(@, 1),
                         !.filters = g.filters,
                         !.groupkey = g.key,
                         !.gkeys = Append(@, g.key)]
        s2 == IF ~hasField(m) THEN s1 ELSE groupBy(s1, m)
    IN [s2 EXCEPT !.steps = Append(@, s2.cache)]

RECURSIVE ApplyLoop(_, _, _)
ApplyLoop(st, batch, i) ==
    IF i > Len(batch) THEN st
    ELSE ApplyLoop(ApplyStep(st, batch[i]), batch, i + 1)

\* A flush condition that wants more metrics than required fields.
CompleteStrict(c, groupkey, measurment) ==
    Len(CacheGet(c, groupkey)) > Len(Fields(measurment))

\* The flush condition of line 217.
Complete(c, groupkey, measurment) ==
    Len(CacheGet(c, groupkey)) >= Len(Fields(measurment))

\* The state of Apply when the loop ends.
LoopResult(c, f, sn, batch) ==
    ApplyLoop([cache |-> c, filters |-> f, groupkey |-> "",
               measurment |-> "", dropped |-> <<>>, logged |-> 0,
               since |-> sn, steps |-> <<>>, gkeys |-> <<>>], batch, 1)

\* Apply(in...): the whole call.
Apply ==
    /\ phase = "initialized"
    /\ ~called
    /\ LET st == LoopResult(cache, filters, since, in)
       IN /\ Cached(st.cache) <= MaxCached
          /\ filters' = st.filters
          /\ dropped' = st.dropped
          /\ logged' = st.logged
          /\ steps' = st.steps
          /\ gkeys' = st.gkeys
          /\ pushed' = Complete(st.cache, st.groupkey, st.measurment)
          /\ preCache' = cache
          /\ called' = TRUE
          /\ IF Complete(st.cache, st.groupkey, st.measurment)
             THEN \E order \in MapOrders(DOMAIN st.cache) :
                    LET r == push(st.cache, order)
                    IN /\ out' = r.aggs
                       /\ cache' = r.cache
                       /\ since' = {}
             ELSE /\ out' = <<>>
                  /\ cache' = st.cache
                  /\ since' = st.since
    /\ UNCHANGED <<GroupBy, phase, initErr, in>>
    /\ UNCHANGED <<minVars, metaVars>>

---------------------------------------------------------------------------
(* The min aggregator (plugins/aggregators/cyclestats/cyclestats.go).      *)

\* Longest sequence of Add calls between two Reset calls.
MaxAdds == 3

\* Field values with their Go type.
Float64(v) == [type |-> "float64", v |-> v]
Int64(v) == [type |-> "int64", v |-> v]
StringValue(v) == [type |-> "string", text |-> v]
Uint64(v) == [type |-> "uint64", v |-> v]

\* A metric given to Add: name, tags and the map of in.Fields().
MinMetric(name, tags, fields) ==
    [name |-> name, tags |-> tags, fields |-> fields]

\* The metrics the host gives to Add.
MinInputMetrics ==
    { MinMetric("grind", [host |-> "a"], [temp |-> Int64(3)]),
      MinMetric("grind", [host |-> "a"],
                [temp |-> Float64(1), state |-> StringValue("on")]),
      MinMetric("grind", [host |-> "a"],
                [temp |-> Int64(2), rpm |-> Uint64(9)]),
      MinMetric("grind", [host |-> "a"],
                [temp |-> StringValue("hot"), load |-> Int64(5)]),
      MinMetric("grind", [host |-> "b"], [temp |-> Float64(4)]),
      MinMetric("steam", [host |-> "a"],
                [temp |-> Int64(2), load |-> Float64(0)]) }

\* in.HashID(): the hash of the name and the tags.  The hash is taken to
\* be free of collisions on the metrics above.
HashID(m) == <<m.name, m.tags>>

\* convert(in): the float64 of a float64 or int64 value (exact in the
\* range of the values above), and whether the value was converted.
convert(v) ==
    IF v.type = "float64" THEN [fv |-> v.v, ok |-> TRUE]
    ELSE IF v.type = "int64" THEN [fv |-> v.v, ok |-> TRUE]
    ELSE [fv |-> 0, ok |-> FALSE]

\* The field keys of a metric whose value converts.
ConvertedKeys(m) == { k \in DOMAIN m.fields : convert(m.fields[k]).ok }

\* An update that keeps the larger value.
NewMax(old, fv) == IF fv > old THEN fv ELSE old

\* Lines 67-70: the cached value of a field after a value fv.
NewMin(old, fv) == IF fv < old THEN fv ELSE old

\* m[key] = value on a Go map.
MapPut(mp, key, value) ==
    [k \in DOMAIN mp \cup {key} |-> IF k = key THEN value ELSE mp[k]]

\* The empty Go map.
EmptyMap == [k \in {} |-> 0]

\* NewCycleStats(): the caches after Reset, nothing pushed or added yet.
MinNew ==
    /\ nameCache = EmptyMap
    /\ tagCache = EmptyMap
    /\ fieldCache = EmptyMap
    /\ acc = <<>>
    /\ accFresh = FALSE
    /\ added = <<>>

\* The processor as New() leaves it, with the default patterns.
ProcNew ==
    /\ GroupBy = DefaultGroupBy
    /\ filters = "nil"
    /\ cache = Reset
    /\ phase = "new"
    /\ initErr = "none"
    /\ in = <<>>
    /\ called = FALSE
    /\ out = <<>>
    /\ preCache = Reset
    /\ steps = <<>>
    /\ dropped = <<>>
    /\ logged = 0
    /\ gkeys = <<>>
    /\ pushed = FALSE
    /\ since = {}

\* The zero Response.
ZeroResponse == [Id |-> 0, SteamCycle |-> 0, GrindCycle |-> 0]

\* No record fetched.
NoRecord == [none |-> TRUE]

\* The tags of the sample configuration.
SamplePortalTags == <<"id", "grind_cycle", "steam_cycle">>

\* The metadata processor as its constructor leaves it, configured with
\* the given tags.
MetaConstructed(tags) ==
    /\ PortalTags = tags
    /\ metaCache = EmptyMap
    /\ meta_resp = ZeroResponse
    /\ metaPhase = "new"
    /\ metaIn = <<>>
    /\ metaCalled = FALSE
    /\ metaOut = <<>>
    /\ mlog = <<>>
    /\ fetched = NoRecord

MetaNew == MetaConstructed(SamplePortalTags)

\* Add(in)
Add ==
    /\ Len(added) < MaxAdds
    /\ \E m \in MinInputMetrics :
         LET id == HashID(m)
         IN /\ IF id \notin DOMAIN nameCache
               THEN /\ nameCache' = MapPut(nameCache, id, m.name)
                    /\ tagCache' = MapPut(tagCache, id, m.tags)
                    /\ fieldCache' =
                         MapPut(fieldCache, id,
                                [k \in ConvertedKeys(m) |->
                                   convert(m.fields[k]).fv])
               ELSE /\ fieldCache' =
                         MapPut(fieldCache, id,
                                [k \in DOMAIN fieldCache[id]
                                          \cup ConvertedKeys(m) |->
                                   IF k \notin ConvertedKeys(m)
                                   THEN fieldCache[id][k]
                                   ELSE IF k \notin DOMAIN fieldCache[id]
                                   THEN convert(m.fields[k]).fv
                                   ELSE NewMin(fieldCache[id][k],
                                               convert(m.fields[k]).fv)])
                    /\ UNCHANGED <<nameCache, tagCache>>
            /\ added' = Append(added, m)
    /\ acc' = <<>>
    /\ accFresh' = FALSE
    /\ UNCHANGED <<procVars, metaVars>>

\* The record Push builds for one id (lines 78-82).
PushRecord(id) ==
    [name   |-> nameCache[id],
     fields |-> [kk \in { k \o "_min" : k \in DOMAIN fieldCache[id] } |->
                   fieldCache[id][CHOOSE k \in DOMAIN fieldCache[id] :
                                     k \o "_min" = kk]],
     tags   |-> tagCache[id]]

\* Push(acc): one AddFields per id, in the order of the range over
\* nameCache.
Push ==
    /\ ~accFresh
    /\ \E order \in MapOrders(DOMAIN nameCache) :
         acc' = [i \in 1..Len(order) |-> PushRecord(order[i])]
    /\ accFresh' = TRUE
    /\ UNCHANGED <<nameCache, tagCache, fieldCache, added>>
    /\ UNCHANGED <<procVars, metaVars>>

\* Reset() of the aggregator.
MinReset ==
    /\ added # <<>>
    /\ nameCache' = EmptyMap
    /\ tagCache' = EmptyMap
    /\ fieldCache' = EmptyMap
    /\ added' = <<>>
    /\ acc' = <<>>
    /\ accFresh' = FALSE
    /\ UNCHANGED <<procVars, metaVars>>

InitMin == ProcNew /\ MinNew /\ MetaNew

NextMin == Add \/ Push \/ MinReset

SpecMin == InitMin /\ [][NextMin]_vars

---------------------------------------------------------------------------
(* The metadata processor (MetadataProcessor).                             *)

\* Longest batch the host passes to one Apply call of the metadata
\* processor.
MaxMetaBatch == 2

\* A Response with the fields that setMetaCache reads.
Response(id, steam, grind) ==
    [Id |-> id, SteamCycle |-> steam, GrindCycle |-> grind]

\* What client.Do and the reading of the body give: whether the transport
\* worked, the status code, whether the body parses as a Response, and
\* the Response it parses to.
Answer(transportOK, status, parses, rec) ==
    [transportOK |-> transportOK, status |-> status, parses |-> parses,
     rec |-> rec]

\* The answers of the server.
Answers ==
    { Answer(FALSE, 0, FALSE, ZeroResponse),
      Answer(TRUE, 200, TRUE, Response(7, 1, 2)),
      Answer(TRUE, 201, TRUE, Response(7, 1, 2)),
      Answer(TRUE, 201, TRUE, Response(8, 3, 0)),
      Answer(TRUE, 201, FALSE, ZeroResponse),
      Answer(TRUE, 299, TRUE, Response(8, 3, 0)),
      Answer(TRUE, 304, TRUE, Response(7, 1, 2)),
      Answer(TRUE, 305, TRUE, Response(7, 1, 2)),
      Answer(TRUE, 404, FALSE, ZeroResponse) }

\* The metrics the host passes to the metadata processor.
MetaInputMetrics ==
    { NewMetric(n, [host |-> "a"], <<Field("value", 1)>>,
                [ms |-> 1000, loc |-> "UTC"]) :
        n \in {"steam", "grind", "notification", "state_change"} }

\* The configurations of portal_tags.
PortalTagsConfigs ==
    { SamplePortalTags, <<"metadata", "steam_cycle", "grind_cycle">>, <<>> }

\* r.metaCache[tag] read: 0 when the tag is absent.
MetaGet(c, tag) == IF tag \in DOMAIN c THEN c[tag] ELSE 0

\* setMetaCache(resp)
setMetaCache(c, resp) ==
    MapPut(MapPut(MapPut(c, "metadata", resp.Id),
                  "steam_cycle", resp.SteamCycle),
           "grind_cycle", resp.GrindCycle)

\* clearMetaCache()
clearMetaCache == EmptyMap

\* getMetadata on the cache c when the server gives answer a: the
\* Response returned, whether an error is returned, the cache afterwards.
getMetadata(c, a) ==
    IF ~a.transportOK
    THEN [resp |-> ZeroResponse, err |-> TRUE, cache |-> c]
    ELSE IF a.status >= 305 \/ a.status <= 200
    THEN [resp |-> ZeroResponse, err |-> TRUE, cache |-> c]
    ELSE IF ~a.parses
    THEN [resp |-> ZeroResponse, err |-> TRUE, cache |-> c]
    ELSE [resp |-> a.rec, err |-> FALSE, cache |-> setMetaCache(c, a.rec)]

\* A test that looks for the tag "id" of the configuration.
NeedsFetchById(c) == "id" \notin DOMAIN c

\* Line 84: no record is cached.
NeedsFetch(c) == "metadata" \notin DOMAIN c

\* Metric.AddTag(key, value)
AddTag(m, key, value) == [m EXCEPT !.tags = MapPut(@, key, value)]

\* The body of the loop over r.PortalTags (lines 99-127) for one tag.
AttachTag(metric, c, tag) ==
    LET v == MetaGet(c, tag)
        tagtype == <<tag, metric.name>>
    IN IF v = 0 THEN metric
       ELSE CASE tagtype = <<"steam_cycle", "steam">> ->
                   AddField(metric, tag, v)
              [] tagtype = <<"metadata", "steam">> ->
                   AddTag(metric, tag, ToString(v))
              [] tagtype = <<"grind_cycle", "grind">> ->
                   AddField(metric, tag, v)
              [] tagtype = <<"metadata", "grind">> ->
                   AddTag(metric, tag, ToString(v))
              [] tagtype = <<"metadata", "notification">> ->
                   AddField(metric, tag, v)
              [] OTHER -> metric

RECURSIVE AttachTags(_, _, _, _)
AttachTags(metric, c, tags, i) ==
    IF i > Len(tags) THEN metric
    ELSE AttachTags(AttachTag(metric, c, tags[i]), c, tags, i + 1)

\* One iteration of the loop of Apply (lines 77-129) for the metric
\* p.metric, the server giving p.answer if it is asked.  The loop state
\* holds the cache, meta_resp, the record fetched since the last
\* state_change, the metrics so far and the log.
MetaApplyStep(st, p) ==
    LET m      == p.metric
        isSC   == m.name = "state_change"
        c1     == IF isSC THEN clearMetaCache ELSE st.cache
        f1     == IF isSC THEN NoRecord ELSE st.fetched
        need   == NeedsFetch(c1)
        g      == getMetadata(c1, p.answer)
        c2     == IF need THEN g.cache ELSE c1
        f2     == IF need /\ ~g.err THEN g.resp ELSE f1
        metric == AttachTags(m, c2, PortalTags, 1)
    IN [cache     |-> c2,
        meta_resp |-> IF need /\ ~g.err THEN g.resp ELSE st.meta_resp,
        fetched   |-> f2,
        out       |-> Append(st.out, metric),
        log       |-> Append(st.log,
                       [cleared      |-> isSC,
                        cacheBefore  |-> st.cache,
                        drops        |-> IF isSC THEN 1 ELSE 0,
                        cacheAtCheck |-> c1,
                        fetchedAtCheck |-> f1,
                        requests     |-> IF need THEN 1 ELSE 0,
                        err          |-> need /\ g.err,
                        cacheAfter   |-> c2,
                        fetchedAfter |-> f2])]

RECURSIVE MetaApplyLoop(_, _, _)
MetaApplyLoop(st, batch, i) ==
    IF i > Len(batch) THEN st
    ELSE MetaApplyLoop(MetaApplyStep(st, batch[i]), batch, i + 1)

\* MetadataProcessor.Apply(in...): the whole call; it returns in.
MetaApply ==
    /\ metaPhase = "initialized"
    /\ ~metaCalled
    /\ LET st == MetaApplyLoop([cache |-> metaCache,
                                meta_resp |-> meta_resp,
                                fetched |-> fetched,
                                out |-> <<>>, log |-> <<>>], metaIn, 1)
       IN /\ metaCache' = st.cache
          /\ meta_resp' = st.meta_resp
          /\ fetched' = st.fetched
          /\ metaOut' = st.out
          /\ mlog' = st.log
    /\ metaCalled' = TRUE
    /\ UNCHANGED <<PortalTags, metaPhase, metaIn>>
    /\ UNCHANGED <<procVars, minVars>>

\* MetadataProcessor.Init(): an error when no tag is configured.
MetaInit ==
    /\ metaPhase = "new"
    /\ metaPhase' = IF Len(PortalTags) = 0 THEN "failed" ELSE "initialized"
    /\ UNCHANGED <<PortalTags, metaCache, meta_resp, metaIn, metaCalled,
                   metaOut, mlog, fetched>>
    /\ UNCHANGED <<procVars, minVars>>

\* The host adds a metric to the batch of its next Apply call; the server
\* will give the chosen answer if Apply asks it for this metric.
MetaCollect ==
    /\ metaPhase = "initialized"
    /\ ~metaCalled
    /\ Len(metaIn) < MaxMetaBatch
    /\ \E m \in MetaInputMetrics : \E a \in Answers :
         metaIn' = Append(metaIn, [metric |-> m, answer |-> a])
    /\ UNCHANGED <<PortalTags, metaCache, meta_resp, metaPhase, metaCalled,
                   metaOut, mlog, fetched>>
    /\ UNCHANGED <<procVars, minVars>>

\* The host takes the returned batch and starts a new batch.
MetaReturn ==
    /\ metaCalled
    /\ metaCalled' = FALSE
    /\ metaIn' = <<>>
    /\ metaOut' = <<>>
    /\ mlog' = <<>>
    /\ UNCHANGED <<PortalTags, metaCache, meta_resp, metaPhase, fetched>>
    /\ UNCHANGED <<procVars, minVars>>

InitMeta ==
    /\ ProcNew
    /\ MinNew
    /\ \E tags \in PortalTagsConfigs : MetaConstructed(tags)

NextMeta == MetaInit \/ MetaCollect \/ MetaApply \/ MetaReturn

SpecMeta == InitMeta /\ [][NextMeta]_vars

---------------------------------------------------------------------------
(* The plugin's life cycle and the host.                                   *)

\* New() followed by the loading of the configuration.
Init ==
    /\ GroupBy \in GroupByConfigs
    /\ filters = "nil"
    /\ cache = Reset
    /\ phase = "new"
    /\ initErr = "none"
    /\ in = <<>>
    /\ called = FALSE
    /\ out = <<>>
    /\ preCache = Reset
    /\ steps = <<>>
    /\ dropped = <<>>
    /\ logged = 0
    /\ gkeys = <<>>
    /\ pushed = FALSE
    /\ since = {}
    /\ MinNew
    /\ MetaNew

\* Init(): logs and returns nil.
InitPlugin ==
    /\ phase = "new"
    /\ phase' = "initialized"
    /\ initErr' = "nil"
    /\ UNCHANGED <<GroupBy, filters, cache, in, called, out, preCache,
                   steps, dropped, logged, gkeys, pushed, since>>
    /\ UNCHANGED <<minVars, metaVars>>

\* The host adds a metric to the batch of its next Apply call.
Collect ==
    /\ phase = "initialized"
    /\ ~called
    /\ Len(in) < MaxBatch
    /\ \E m \in InputMetrics : in' = Append(in, m)
    /\ UNCHANGED <<GroupBy, filters, cache, phase, initErr, called, out,
                   preCache, steps, dropped, logged, gkeys, pushed, since>>
    /\ UNCHANGED <<minVars, metaVars>>

\* The host takes the returned batch and starts a new, empty batch.
Return ==
    /\ called
    /\ called' = FALSE
    /\ in' = <<>>
    /\ out' = <<>>
    /\ preCache' = Reset
    /\ steps' = <<>>
    /\ dropped' = <<>>
    /\ logged' = 0
    /\ gkeys' = <<>>
    /\ pushed' = FALSE
    /\ UNCHANGED <<GroupBy, filters, cache, phase, initErr, since>>
    /\ UNCHANGED <<minVars, metaVars>>

Next == InitPlugin \/ Collect \/ Apply \/ Return

Spec == Init /\ [][Next]_vars

---------------------------------------------------------------------------
(* Notions used by the properties.                                         *)

\* The cache when the loop of the last Apply call ended, before the flush
\* decision.
LoopEnd == IF Len(steps) = 0 THEN preCache ELSE steps[Len(steps)]

\* The field keys of a metric and the value it holds for one of them.
FieldKeys(m) == { m.fields[i].Key : i \in 1..Len(m.fields) }

FieldValue(m, key) ==
    m.fields[CHOOSE i \in 1..Len(m.fields) : m.fields[i].Key = key].Value

\* The value of key in the last metric of the buffer ms that carries it.
LastValue(ms, key) ==
    LET J == { j \in 1..Len(ms) : HasField(ms[j], key) }
        last == CHOOSE j \in J : \A x \in J : x <= j
    IN FieldValue(ms[last], key)

\* The position in the returned batch of the aggregates of group k.
AggsOf(k) ==
    { i \in 1..Len(out) : GroupKeyString(out[i].name, out[i].tm) = k }

\* The last Apply call was a single metric that carries a required field,
\* on a cache that held nothing but fewer than K metrics of its own key.
SingleGroupCall ==
    /\ called
    /\ Len(in) = 1
    /\ ~CompileFails(GroupBy)
    /\ hasField(in[1])
    /\ DOMAIN preCache \subseteq {gkeys[1]}
    /\ Len(CacheGet(preCache, gkeys[1])) < Len(Fields(in[1].name))

---------------------------------------------------------------------------
(* Properties.                                                             *)

\* C1: completeness threshold.  With patterns that compile, when metrics of
\* one measurement with K required fields arrive in one bucket, one per
\* Apply call, on a cache that holds only that group, the calls that bring
\* the buffer to fewer than K metrics return an empty batch and keep the
\* metrics buffered in order, and the call that brings it to K flushes.
C1_CompletenessThreshold ==
    SingleGroupCall =>
      LET k   == gkeys[1]
          buf == Append(CacheGet(preCache, k), in[1])
      IN IF Len(buf) < Len(Fields(in[1].name))
         THEN ~pushed /\ out = <<>> /\ cache = CachePut(preCache, k, buf)
         ELSE pushed /\ Len(out) = 1 /\ cache = Reset

\* The K-th metric of a group has arrived and the call has flushed.
C1_Witness ==
    /\ SingleGroupCall
    /\ Len(Fields(in[1].name)) >= 1
    /\ Len(CacheGet(preCache, gkeys[1])) + 1 = Len(Fields(in[1].name))
    /\ pushed
    /\ Len(out) = 1

\* C2: global flush.  When an Apply call flushes, the cache is empty when
\* it returns, and every key that held metrics at the flush has an
\* aggregate in the returned batch that carries the name and bucket of the
\* group and every field key of every metric buffered under the key.
C2_GlobalFlush ==
    (called /\ pushed) =>
      /\ cache = Reset
      /\ \A k \in DOMAIN LoopEnd : \E i \in 1..Len(out) :
           /\ out[i].name = LoopEnd[k][1].name
           /\ GroupKeyString(out[i].name, out[i].tm) = k
           /\ \A j \in 1..Len(LoopEnd[k]) :
                FieldKeys(LoopEnd[k][j]) \subseteq FieldKeys(out[i])

\* Key A completed while another key B held an incomplete group, and the
\* call flushed both.
C2_Witness ==
    /\ called /\ pushed /\ Len(in) >= 1
    /\ LET a == gkeys[Len(in)]
       IN /\ a \in DOMAIN LoopEnd
          /\ Len(Fields(in[Len(in)].name)) >= 1
          /\ Len(LoopEnd[a]) >= Len(Fields(in[Len(in)].name))
          /\ \E b \in DOMAIN preCache \ {a} :
               Len(LoopEnd[b]) < Len(Fields(LoopEnd[b][1].name))
    /\ Len(out) >= 2
    /\ cache = Reset

\* C3: merge by union, last writer wins.  For every group flushed, its
\* aggregate has each field key once, its field keys are the union of the
\* field keys of the metrics of the buffer, and each key has the value of
\* the last metric of the buffer that carries it; the buffer keeps the
\* metrics of earlier calls in front of those of this call.
C3_MergeLastWriterWins ==
    (called /\ pushed) =>
      /\ \A k \in DOMAIN preCache :
           /\ k \in DOMAIN LoopEnd
           /\ Len(preCache[k]) <= Len(LoopEnd[k])
           /\ SubSeq(LoopEnd[k], 1, Len(preCache[k])) = preCache[k]
      /\ \A k \in DOMAIN LoopEnd : \E i \in AggsOf(k) :
           /\ Len(out[i].fields) = Cardinality(FieldKeys(out[i]))
           /\ FieldKeys(out[i]) =
                UNION { FieldKeys(LoopEnd[k][j]) : j \in 1..Len(LoopEnd[k]) }
           /\ \A key \in FieldKeys(out[i]) :
                FieldValue(out[i], key) = LastValue(LoopEnd[k], key)

\* A group buffered over two calls, whose first metric holds another value
\* for a key than a later one, has been flushed with the later value.
C3_Witness ==
    /\ called /\ pushed
    /\ \E k \in DOMAIN preCache : \E i \in AggsOf(k) :
         /\ Len(LoopEnd[k]) > Len(preCache[k])
         /\ \E j \in 2..Len(LoopEnd[k]) :
            \E key \in FieldKeys(LoopEnd[k][1]) \cap FieldKeys(LoopEnd[k][j]) :
              /\ FieldValue(LoopEnd[k][1], key) # FieldValue(LoopEnd[k][j], key)
              /\ FieldValue(out[i], key) # FieldValue(LoopEnd[k][1], key)
         /\ \E key \in FieldKeys(out[i]) : key \notin FieldKeys(LoopEnd[k][1])

\* C4: one aggregate per group, with the identity of the first metric.  A
\* flush returns as many aggregates as the cache has keys, no two of them
\* for the same key, and for every key one with the name, the tags and the
\* timestamp of the first metric of its buffer.
C4_OnePerGroupFirstIdentity ==
    (called /\ pushed) =>
      /\ Len(out) = Cardinality(DOMAIN LoopEnd)
      /\ \A k \in DOMAIN LoopEnd :
           /\ Cardinality(AggsOf(k)) = 1
           /\ \A i \in AggsOf(k) :
                /\ out[i].name = LoopEnd[k][1].name
                /\ out[i].tags = LoopEnd[k][1].tags
                /\ out[i].tm = LoopEnd[k][1].tm

\* Two groups were flushed, one of which holds a later metric whose tags
\* and timestamp differ from those of its first metric.
C4_Witness ==
    /\ called /\ pushed
    /\ Len(out) >= 2
    /\ \E k \in DOMAIN LoopEnd : \E j \in 2..Len(LoopEnd[k]) :
         /\ LoopEnd[k][j].tags # LoopEnd[k][1].tags
         /\ LoopEnd[k][j].tm # LoopEnd[k][1].tm

\* C5: state-change reset.  When a batch holds a metric named
\* "state_change", the groups buffered before it are cleared, so that when
\* the call returns the cache holds at most the metrics that followed it in
\* the batch; and no state_change metric is ever in the cache or in a
\* returned batch.
C5_StateChangeReset ==
    /\ called =>
         \A i \in 1..Len(in) :
           in[i].name = "state_change" => Cached(cache) <= Len(in) - i
    /\ \A k \in DOMAIN cache : \A j \in 1..Len(cache[k]) :
         cache[k][j].name # "state_change"
    /\ \A i \in 1..Len(out) : out[i].name # "state_change"

\* C6: a metric of an unknown measurement is a no-op.  An Apply call whose
\* batch is one metric whose name has no entry in the required-field table
\* returns an empty batch and leaves the cache as it was.
C6_UnknownMeasurementNoOp ==
    (called /\ Len(in) = 1 /\ in[1].name \notin TableNames) =>
      (out = <<>> /\ cache = preCache)

C8_CacheKeyInvariant ==
    /\ DOMAIN cache = since
    /\ \A k \in DOMAIN cache : Len(cache[k]) >= 1
    /\ \A i \in 1..Len(steps) : \A k \in DOMAIN steps[i] :
         Len(steps[i][k]) >= 1
    /\ (called /\ ~pushed) =>
         DOMAIN cache =
           DOMAIN preCache \cup
             { gkeys[i] : i \in { x \in 1..Len(in) :
                                    hasField(in[x])
                                    /\ ~CompileFails(GroupBy) } }

\* The length check ran for the key of a metric that was not buffered, on a
\* cache that holds other groups, and the key is not in the cache.
C8_Witness ==
    /\ called /\ ~pushed /\ Len(in) >= 1
    /\ ~hasField(in[Len(in)])
    /\ gkeys[Len(in)] # ""
    /\ gkeys[Len(in)] \notin DOMAIN cache
    /\ cache # Reset

\* C9: consumption of inputs.  Every metric of the batch is dropped once,
\* whether it is buffered or not; the metrics held in the cache are objects
\* of the host, and every element of a returned batch is an object made by
\* Copy, never an object the host passed in.
C9_InputsConsumedOutputsCopied ==
    /\ called =>
         /\ Len(dropped) = Len(in)
         /\ \A i \in 1..Len(in) : dropped[i] = 1 /\ in[i].obj = "input"
    /\ \A k \in DOMAIN cache : \A j \in 1..Len(cache[k]) :
         cache[k][j].obj = "input"
    /\ \A i \in 1..Len(out) : out[i].obj = "copy"

\* A call whose batch held a metric that was buffered and one that was
\* not has returned an aggregate.
C9_Witness ==
    /\ called /\ pushed
    /\ Len(out) >= 1
    /\ \E i \in 1..Len(in) : hasField(in[i])
    /\ \E i \in 1..Len(in) : ~hasField(in[i])

\* C10: a configuration error is fatal at setup.  When the grouping
\* patterns do not compile, Init does not return nil and no Apply call
\* runs.
C10_ConfigErrorFatal ==
    CompileFails(GroupBy) => (initErr # "nil" /\ ~called)

\* C12: the flush decision uses only the last metric of the batch.  An
\* Apply call with a non-empty batch flushes if and only if, when the loop
\* has ended, the buffer under the key of the last metric of the batch is
\* at least as long as the required-field list of that metric's name; a
\* call that does not flush returns an empty batch.
C12_FlushDecisionByLastMetric ==
    (called /\ Len(in) >= 1) =>
      LET last == in[Len(in)]
          k    == GroupKeyString(last.name, last.tm)
      IN /\ pushed <=>
              Len(CacheGet(LoopEnd, k)) >= Len(Fields(last.name))
         /\ ~pushed => (out = <<>> /\ cache = LoopEnd)

\* A group reached its threshold through the first metric of a batch of
\* two, the last metric belongs to another group, and the call did not
\* flush.
C12_Witness ==
    /\ called /\ ~pushed /\ Len(in) = 2
    /\ out = <<>>
    /\ gkeys[1] # gkeys[2]
    /\ gkeys[1] \in DOMAIN LoopEnd
    /\ Len(CacheGet(preCache, gkeys[1])) < Len(Fields(in[1].name))
    /\ Len(LoopEnd[gkeys[1]]) >= Len(Fields(in[1].name))
    /\ Len(Fields(in[1].name)) >= 1

\* C13: completeness means that all required fields were seen.  When a
\* call flushes on the group of its last metric, whose name has an entry
\* in the table, every field of the required-field list of that name is
\* carried by a metric of the group's buffer, and so by its aggregate.
C13_CompleteMeansAllFieldsSeen ==
    (called /\ pushed /\ Len(in) >= 1 /\ in[Len(in)].name \in TableNames) =>
      LET last == in[Len(in)]
          k    == gkeys[Len(in)]
          req  == Fields(last.name)
      IN /\ k \in DOMAIN LoopEnd
         /\ \A f \in 1..Len(req) :
              /\ \E j \in 1..Len(LoopEnd[k]) : HasField(LoopEnd[k][j], req[f])
              /\ \E i \in AggsOf(k) : HasField(out[i], req[f])

\* C14: a state change aborts the accumulation without emitting.  The
\* groups buffered when a "state_change" metric is processed are not
\* returned: the call returns at most one aggregate for each metric that
\* followed the state_change metric in the batch, and a call whose batch
\* is a single state_change metric returns an empty batch.
C14_StateChangeEmitsNothing ==
    called =>
      \A i \in 1..Len(in) :
        in[i].name = "state_change" => Len(out) <= Len(in) - i

\* C15: buffered-content invariant.  Every metric held in the cache, at
\* the end of a call and after each metric of a call, has a name with an
\* entry in the required-field table, carries a field of that entry's
\* list, and is stored under the key made of its own name and its own
\* timestamp truncated to one second.
C15_BufferedContent ==
    /\ \A k \in DOMAIN cache : \A j \in 1..Len(cache[k]) :
         /\ cache[k][j].name \in TableNames
         /\ \E f \in 1..Len(Fields(cache[k][j].name)) :
              Fields(cache[k][j].name)[f] \in FieldKeys(cache[k][j])
         /\ k = cache[k][j].name \o "&"
                  \o TimeString([ms  |-> 1000 * (cache[k][j].tm.ms \div 1000),
                                 loc |-> cache[k][j].tm.loc])
    /\ \A i \in 1..Len(steps) :
       \A k \in DOMAIN steps[i] : \A j \in 1..Len(steps[i][k]) :
         /\ steps[i][k][j].name \in TableNames
         /\ \E f \in 1..Len(Fields(steps[i][k][j].name)) :
              Fields(steps[i][k][j].name)[f] \in FieldKeys(steps[i][k][j])
         /\ k = GroupKeyString(steps[i][k][j].name, steps[i][k][j].tm)

\* A call on a batch that held a metric of a known measurement without any
\* required field, and one that was buffered, did not flush and left the
\* cache with the buffered metrics only.
C15_Witness ==
    /\ called /\ ~pushed
    /\ cache # Reset
    /\ \E i \in 1..Len(in) :
         in[i].name \in TableNames /\ ~hasField(in[i])
    /\ \E i \in 1..Len(in) : hasField(in[i])

\* C16: persistence of incomplete groups.  An Apply call that does not
\* flush and whose batch holds no state_change metric removes, replaces or
\* reorders no buffered metric: every key it found is still in the cache
\* and its old buffer is a prefix of its new buffer.
C16_IncompleteGroupsPersist ==
    (called /\ ~pushed
       /\ \A i \in 1..Len(in) : in[i].name # "state_change") =>
      \A k \in DOMAIN preCache :
        /\ k \in DOMAIN cache
        /\ Len(preCache[k]) <= Len(cache[k])
        /\ SubSeq(cache[k], 1, Len(preCache[k])) = preCache[k]

\* A call that did not flush added a metric to a group buffered by an
\* earlier call and left another group as it was.
C16_Witness ==
    /\ called /\ ~pushed /\ Len(in) >= 1
    /\ \A i \in 1..Len(in) : in[i].name # "state_change"
    /\ \E k \in DOMAIN preCache : Len(cache[k]) > Len(preCache[k])
    /\ \E k \in DOMAIN preCache : cache[k] = preCache[k]

C18_EmptyBatchNoOp ==
    (called /\ Len(in) = 0) => (out = <<>> /\ cache = preCache)

---------------------------------------------------------------------------
(* Properties of the min aggregator (SpecMin).                             *)

\* The metric identities seen since the last Reset.
Identities == { HashID(added[i]) : i \in 1..Len(added) }

\* The first metric of an identity added since the last Reset.
FirstOf(id) ==
    added[CHOOSE i \in 1..Len(added) :
            /\ HashID(added[i]) = id
            /\ \A j \in 1..(i - 1) : HashID(added[j]) # id]

\* The float64 and int64 values that field k carried in the metrics of an
\* identity.
NumericValues(id, k) ==
    { added[i].fields[k].v :
        i \in { j \in 1..Len(added) :
                  /\ HashID(added[j]) = id
                  /\ k \in DOMAIN added[j].fields
                  /\ added[j].fields[k].type \in {"float64", "int64"} } }

\* The field keys that carried a float64 or int64 value in a metric of an
\* identity.
NumericKeys(id) ==
    { k \in UNION { DOMAIN added[i].fields : i \in 1..Len(added) } :
        NumericValues(id, k) # {} }

SetMin(S) == CHOOSE x \in S : \A y \in S : x <= y

\* C11: min aggregator.  After any sequence of Add calls since the last
\* Reset the caches hold, for every identity seen, the minimum of the
\* float64 and int64 values of each field, other values being ignored;
\* Push emits exactly one record per identity, with the name and tags of
\* the first metric of the identity and a field k_min with that minimum
\* for each such field k and no other field; and the caches are the same
\* after Push.
C11_MinAggregator ==
    /\ DOMAIN nameCache = Identities
    /\ DOMAIN tagCache = Identities
    /\ DOMAIN fieldCache = Identities
    /\ \A id \in Identities :
         /\ nameCache[id] = FirstOf(id).name
         /\ tagCache[id] = FirstOf(id).tags
         /\ DOMAIN fieldCache[id] = NumericKeys(id)
         /\ \A k \in NumericKeys(id) :
              fieldCache[id][k] = SetMin(NumericValues(id, k))
    /\ accFresh =>
         /\ Len(acc) = Cardinality(Identities)
         /\ \A id \in Identities :
              /\ Cardinality({ i \in 1..Len(acc) :
                                 /\ acc[i].name = FirstOf(id).name
                                 /\ acc[i].tags = FirstOf(id).tags }) = 1
              /\ \A i \in 1..Len(acc) :
                   (acc[i].name = FirstOf(id).name
                      /\ acc[i].tags = FirstOf(id).tags) =>
                     /\ DOMAIN acc[i].fields =
                          { k \o "_min" : k \in NumericKeys(id) }
                     /\ \A k \in NumericKeys(id) :
                          acc[i].fields[k \o "_min"] =
                            SetMin(NumericValues(id, k))

\* Push has emitted the records of two identities, one of which got a
\* smaller value for a field after a larger one and a value that is not a
\* number.
C11_Witness ==
    /\ accFresh
    /\ Len(acc) = 2
    /\ \E i, j \in 1..Len(added) :
         /\ i < j
         /\ HashID(added[i]) = HashID(added[j])
         /\ \E k \in DOMAIN added[i].fields \cap DOMAIN added[j].fields :
              /\ added[i].fields[k].type \in {"float64", "int64"}
              /\ added[j].fields[k].type \in {"float64", "int64"}
              /\ added[j].fields[k].v < added[i].fields[k].v
         /\ \E k \in DOMAIN added[j].fields :
              added[j].fields[k].type = "string"

---------------------------------------------------------------------------
(* Properties of the metadata processor (SpecMeta).                        *)

\* The value a Response holds for a tag of the cache.
RecordValue(rec, tag) ==
    CASE tag = "metadata" -> rec.Id
      [] tag = "steam_cycle" -> rec.SteamCycle
      [] tag = "grind_cycle" -> rec.GrindCycle

\* C19: metadata cache life cycle.  A metric makes Apply send a request
\* only when no record is cached, and at most one; from a successful
\* request until the next state_change metric no request is sent; and
\* every field or tag attached to a metric has the value of the record
\* fetched by the last successful request since the last state_change
\* metric, so no value cached before a state_change is attached after it.
C19_MetadataCacheLifecycle ==
    /\ (fetched # NoRecord) <=> ("metadata" \in DOMAIN metaCache)
    /\ \A i \in 1..Len(mlog) :
         /\ mlog[i].requests <= 1
         /\ mlog[i].requests = 1 =>
              (mlog[i].fetchedAtCheck = NoRecord
                 /\ mlog[i].cacheAtCheck = EmptyMap)
         /\ mlog[i].cleared => mlog[i].cacheAtCheck = EmptyMap
         /\ \A f \in 1..Len(metaOut[i].fields) :
              metaOut[i].fields[f] \notin
                  { metaIn[i].metric.fields[x] :
                      x \in 1..Len(metaIn[i].metric.fields) }
              => /\ mlog[i].fetchedAfter # NoRecord
                 /\ metaOut[i].fields[f].Value =
                      RecordValue(mlog[i].fetchedAfter,
                                  metaOut[i].fields[f].Key)
         /\ \A t \in DOMAIN metaOut[i].tags \ DOMAIN metaIn[i].metric.tags :
              /\ mlog[i].fetchedAfter # NoRecord
              /\ metaOut[i].tags[t] =
                   ToString(RecordValue(mlog[i].fetchedAfter, t))

\* A state_change metric arrived while a record was cached: the cache was
\* cleared, one request was sent for it and succeeded, no request was sent
\* for the next metric, and that metric got the newly fetched value, which
\* differs from the value cached before.
C19_Witness ==
    /\ metaCalled
    /\ Len(mlog) = 2
    /\ mlog[1].cleared
    /\ "steam_cycle" \in DOMAIN mlog[1].cacheBefore
    /\ mlog[1].requests = 1 /\ ~mlog[1].err
    /\ mlog[2].requests = 0
    /\ \E f \in 1..Len(metaOut[2].fields) :
         /\ metaOut[2].fields[f].Key = "steam_cycle"
         /\ metaOut[2].fields[f].Value # mlog[1].cacheBefore["steam_cycle"]
         /\ metaOut[2].fields[f].Value = metaCache["steam_cycle"]

\* C20: a successful metadata response is cached.  For every request whose
\* answer has a status from 200 to 299 and a body that parses, getMetadata
\* returns no error and the cache holds the id, steam_cycle and grind_cycle
\* of the record; and when getMetadata returns an error the status is not
\* a success status, or the transport failed, or the body does not parse,
\* and the cache is as it was.
C20_SuccessfulResponseCached ==
    \A i \in 1..Len(mlog) :
      mlog[i].requests = 1 =>
        LET a == metaIn[i].answer
        IN /\ (a.transportOK /\ a.status >= 200 /\ a.status <= 299
                 /\ a.parses)
              => /\ ~mlog[i].err
                 /\ {"metadata", "steam_cycle", "grind_cycle"}
                      \subseteq DOMAIN mlog[i].cacheAfter
                 /\ mlog[i].cacheAfter["metadata"] = a.rec.Id
                 /\ mlog[i].cacheAfter["steam_cycle"] = a.rec.SteamCycle
                 /\ mlog[i].cacheAfter["grind_cycle"] = a.rec.GrindCycle
           /\ mlog[i].err
              => /\ (~a.transportOK \/ a.status < 200 \/ a.status > 299
                       \/ ~a.parses)
                 /\ mlog[i].cacheAfter = mlog[i].cacheAtCheck

====
